---- MODULE Spec2Model ----
(***************************************************************************)
(* Model of src/app.py: the mangatek scraper's fetch layer and the reader   *)
(* endpoints built on it.                                                  *)
(*                                                                         *)
(*   fetch_html            Playwright -> httpx -> cloudscraper, one try    *)
(*                         each, HTTPException(502) when all are used up   *)
(*   fetch_page_playwright launch / new_context / goto / content / close   *)
(*                         inside "async with async_playwright()"          *)
(*   reader (route)        the function FastAPI registered for             *)
(*                         /reader/{slug}/{chapter}: fetch_html, then the  *)
(*                         clean-up of the image sources found in the page *)
(*   reader_from_url       host guard, slug/chapter extraction, call of    *)
(*                         the module-level name "reader" (the wrapper     *)
(*                         built by @cached(cache) and @limiter.limit)     *)
(*   cache                 TTLCache(maxsize=1024, ttl=CACHE_TTL)           *)
(*                                                                         *)
(* Every request is one asyncio task.  A task's position (pc) changes at   *)
(* its await points; tasks interleave between them.  manga_list and        *)
(* manga_detail wrap fetch_html in the try/except reader wraps it in.      *)
(***************************************************************************)
EXTENDS Integers, Sequences, FiniteSets, TLC

\* ------------------------------------------------------------------ bounds
NumRequests == 2        \* request tasks of one run
TickStep == 300         \* seconds one Tick advances the clock by

\* ------------------------------------------------------- program constants
CACHE_TTL == 300        \* app.py:28  int(os.getenv("CACHE_TTL", "300"))
MIN_HTML_LEN == 50      \* app.py:190 len(html) > 50
BAD_GATEWAY == 502      \* app.py:215 HTTPException(status_code=502, ...)
BAD_REQUEST == 400      \* app.py:416 / 431 HTTPException(status_code=400, ...)
HTTP_OK == 200          \* a returned dict is answered with status 200
TOO_MANY == 429         \* app.py:45 status of a rate-limited call

Requests == 1..NumRequests

\* ------------------------------------------------------------- input sets
\* statuses an upstream can answer with
Statuses == {200, 403}

VARIABLES
    USE_PLAYWRIGHT, \* app.py:25, read once at import
    pc,             \* position of each request task
    req,            \* the request's input
    attempts,       \* executor invocations of the request's fetch_html, in order
    last_exc,       \* fetch_html's local last_exc
    html,           \* fetch_page_playwright's local content
    pw,             \* the task's async with block and what the code did with the
                    \* browser and the context it opened in it
    fetched,        \* what the request's fetch_html call ended with
    result,         \* what the request was answered with
    cache,          \* the TTLCache: entries (key, age)
    served          \* history: age of the last successful answer per key

vars == <<USE_PLAYWRIGHT, pc, req, attempts, last_exc, html, pw, fetched, result, cache, served>>

\* ----------------------------------------------------------------- values
NoExc == [type |-> "None", status |-> 0]
Exc(t, s) == [type |-> t, status |-> s]

NoReq == [via |-> "none", url |-> 0, slug |-> <<>>, chapter |-> <<>>, fresh |-> FALSE]
NoPw == [scope |-> "none", browser |-> "none", context |-> "none"]
\* a page: its length and the image sources reader's selectors find in it
Doc(len, imgs) == [len |-> len, imgs |-> imgs]
NoDoc == Doc(0, <<>>)
Pending == [kind |-> "pending", status |-> 0, len |-> 0, detail |-> "", last |-> NoExc]

PwPcs == {"pw_enter", "pw_launch", "pw_context", "pw_page", "pw_goto", "pw_goto_load",
          "pw_content", "pw_close_context", "pw_close_browser", "pw_exit"}
FetchPcs == PwPcs \cup {"httpx", "cloudscraper"}

Last(s) == s[Len(s)]
Count(att, s) == Cardinality({i \in DOMAIN att : att[i].s = s})

\* ------------------------------------------------------------------- text
\* A str is the sequence of its characters' code points; the two tables give
\* the code points of the characters a literal is written with.
AsciiLow == " !\"#$%&'()*+,-./0123456789:;<=>?@ABCDEFGHIJKLMNOPQRSTUVWXYZ[\\]^_"
AsciiHigh == "abcdefghijklmnopqrstuvwxyz{|}~"
Ord(c) ==
    IF \E k \in 1..Len(AsciiLow) : SubSeq(AsciiLow, k, k) = c
    THEN 31 + (CHOOSE k \in 1..Len(AsciiLow) : SubSeq(AsciiLow, k, k) = c)
    ELSE 96 + (CHOOSE k \in 1..Len(AsciiHigh) : SubSeq(AsciiHigh, k, k) = c)
Str(s) == [i \in 1..Len(s) |-> Ord(SubSeq(s, i, i))]

Min(S) == CHOOSE x \in S : \A y \in S : x <= y
Has(s, c) == \E i \in 1..Len(s) : s[i] = c
IsSubstr(p, s) == \E i \in 0..(Len(s) - Len(p)) : SubSeq(s, i + 1, i + Len(p)) = p
StartsAt(p, s, i) == i >= 1 /\ i + Len(p) - 1 <= Len(s) /\ SubSeq(s, i, i + Len(p) - 1) = p
\* index of the first character of s at or after i that is in chars
\* (Len(s) + 1 when there is none)
FirstOf(s, chars, i) == Min({j \in i..(Len(s) + 1) : j > Len(s) \/ s[j] \in chars})
\* s.split(sep): the parts of s between the occurrences of sep
Split(s, sep) ==
    LET at == {i \in 1..Len(s) : s[i] = sep}
        pos(k) == CHOOSE p \in at : Cardinality({q \in at : q < p}) = k - 1
        n == Cardinality(at)
    IN  [k \in 1..(n + 1) |->
            SubSeq(s, IF k = 1 THEN 1 ELSE pos(k - 1) + 1,
                      IF k = n + 1 THEN Len(s) ELSE pos(k) - 1)]

\* ---------------------------------------------------------------- unquote
IsHex(c) == c \in (48..57) \cup (65..70) \cup (97..102)
HexVal(c) == IF c <= 57 THEN c - 48 ELSE IF c <= 70 THEN c - 55 ELSE c - 87

\* urllib.parse.unquote_to_bytes on a run of ASCII characters, from index i:
\* "%" and two hex digits of either case give the byte, all else stays
RECURSIVE unquote_to_bytes(_, _)
unquote_to_bytes(s, i) ==
    IF i > Len(s) THEN <<>>
    ELSE IF s[i] = 37 /\ i + 2 <= Len(s) /\ IsHex(s[i + 1]) /\ IsHex(s[i + 2])
         THEN <<16 * HexVal(s[i + 1]) + HexVal(s[i + 2])>> \o unquote_to_bytes(s, i + 3)
         ELSE <<s[i]>> \o unquote_to_bytes(s, i + 1)

\* UTF-8: the number of continuation bytes a lead byte asks for
Utf8Need(lead) ==
    IF lead \in 194..223 THEN 1
    ELSE IF lead \in 224..239 THEN 2
    ELSE IF lead \in 240..244 THEN 3
    ELSE 0
\* the values the k-th continuation byte after lead may have
Utf8Cont(lead, k) ==
    IF k = 1 /\ lead = 224 THEN 160..191
    ELSE IF k = 1 /\ lead = 237 THEN 128..159
    ELSE IF k = 1 /\ lead = 240 THEN 144..191
    ELSE IF k = 1 /\ lead = 244 THEN 128..143
    ELSE 128..191

REPLACEMENT == 65533

\* bytes.decode("utf-8", "replace") at index i: the character and where the next
\* one starts.  An invalid start byte, and a sequence stopped by a byte that
\* cannot continue it, become one U+FFFD; so does a sequence the data ends in.
Utf8Char(b, i) ==
    LET lead == b[i]
        need == Utf8Need(lead)
        bad == {k \in 1..need : i + k > Len(b) \/ b[i + k] \notin Utf8Cont(lead, k)}
    IN  IF lead < 128 THEN [cp |-> lead, next |-> i + 1]
        ELSE IF need = 0 THEN [cp |-> REPLACEMENT, next |-> i + 1]
        ELSE IF bad # {} THEN
            [cp |-> REPLACEMENT,
             next |-> IF i + Min(bad) > Len(b) THEN Len(b) + 1 ELSE i + Min(bad)]
        ELSE IF need = 1 THEN
            [cp |-> (lead - 192) * 64 + (b[i + 1] - 128), next |-> i + 2]
        ELSE IF need = 2 THEN
            [cp |-> (lead - 224) * 4096 + (b[i + 1] - 128) * 64 + (b[i + 2] - 128),
             next |-> i + 3]
        ELSE
            [cp |-> (lead - 240) * 262144 + (b[i + 1] - 128) * 4096
                        + (b[i + 2] - 128) * 64 + (b[i + 3] - 128),
             next |-> i + 4]

RECURSIVE decode_utf8(_, _)
decode_utf8(b, i) ==
    IF i > Len(b) THEN <<>>
    ELSE <<Utf8Char(b, i).cp>> \o decode_utf8(b, Utf8Char(b, i).next)

\* unquote's loop over _asciire.split(string): a run of ASCII characters is
\* unquoted to bytes and decoded, a character beyond ASCII is kept
RECURSIVE UnquoteBits(_, _)
UnquoteBits(s, i) ==
    IF i > Len(s) THEN <<>>
    ELSE IF s[i] > 127 THEN <<s[i]>> \o UnquoteBits(s, i + 1)
    ELSE LET e == Min({j \in i..(Len(s) + 1) : j > Len(s) \/ s[j] > 127}) - 1
         IN  decode_utf8(unquote_to_bytes(SubSeq(s, i, e), 1), 1) \o UnquoteBits(s, e + 1)

\* app.py:410  urllib.parse.unquote(url)
unquote(string) ==
    IF ~Has(string, 37) THEN string ELSE UnquoteBits(string, 1)

\* --------------------------------------------------------------- urlparse
IsLetter(c) == c \in (65..90) \cup (97..122)
IsSchemeChar(c) == IsLetter(c) \/ c \in (48..57) \cup {43, 45, 46}

\* urlsplit: url.lstrip(_WHATWG_C0_CONTROL_OR_SPACE), then tab, CR and LF removed
Cleaned(url) ==
    LET keep == {i \in 1..Len(url) : url[i] > 32}
        stripped == IF keep = {} THEN <<>> ELSE SubSeq(url, Min(keep), Len(url))
    IN  SelectSeq(stripped, LAMBDA c : c \notin {9, 10, 13})

\* urlsplit: the scheme is what precedes the first ":" when it starts with an
\* ASCII letter and holds only scheme characters; the result is where the rest starts
AfterScheme(u) ==
    LET c == FirstOf(u, {58}, 1)
    IN  IF /\ c <= Len(u)
           /\ c > 1
           /\ IsLetter(u[1])
           /\ \A k \in 1..(c - 1) : IsSchemeChar(u[k])
        THEN c + 1 ELSE 1

\* IPv4Address._parse_octet does not raise
IsOctet(o) ==
    /\ o # <<>>
    /\ \A k \in 1..Len(o) : o[k] \in 48..57
    /\ Len(o) <= 3
    /\ ~(o # <<48>> /\ o[1] = 48)
    /\ (Len(o) = 3 => 100 * (o[1] - 48) + 10 * (o[2] - 48) + (o[3] - 48) <= 255)
IsOctets(octets) == Len(octets) = 4 /\ \A k \in 1..4 : IsOctet(octets[k])
\* ipaddress.IPv4Address(s) does not raise
IsIPv4(s) == ~Has(s, 47) /\ s # <<>> /\ IsOctets(Split(s, 46))

\* IPv6Address._parse_hextet does not raise
IsHextet(h) == h # <<>> /\ Len(h) <= 4 /\ \A k \in 1..Len(h) : IsHex(h[k])

\* IPv6Address._ip_int_from_string, from "find '::'" on: parts holds one empty
\* part between its ends, at skip (0 when it holds none), and no more
IsIPv6Hextets(parts, n, skip) ==
    IF skip # 0
    THEN /\ parts[1] = <<>> => skip = 2
         /\ parts[n] = <<>> => skip = n - 1
         /\ (IF parts[1] = <<>> THEN 0 ELSE skip - 1)
              + (IF parts[n] = <<>> THEN 0 ELSE n - skip) <= 7
         /\ \A k \in 1..n : (k # skip /\ parts[k] = <<>>) \/ k = skip \/ IsHextet(parts[k])
    ELSE n = 8 /\ \A k \in 1..8 : IsHextet(parts[k])
IsIPv6Parts(parts, skips) ==
    /\ Len(parts) <= 9
    /\ Cardinality(skips) <= 1
    /\ IsIPv6Hextets(parts, Len(parts), IF skips = {} THEN 0 ELSE CHOOSE i \in skips : TRUE)
\* an IPv4 suffix is replaced by the two hextets of its value
IsIPv6Split(split, v4) ==
    /\ Len(split) >= 3
    /\ v4 => IsIPv4(split[Len(split)])
    /\ LET parts == IF v4 THEN SubSeq(split, 1, Len(split) - 1) \o <<<<48>>, <<48>>>>
                    ELSE split
       IN  IsIPv6Parts(parts, {i \in 2..(Len(parts) - 1) : parts[i] = <<>>})
\* IPv6Address._ip_int_from_string(addr) does not raise
IsIPv6Body(addr) ==
    /\ addr # <<>>
    /\ LET split == Split(addr, 58)
       IN  IsIPv6Split(split, Has(split[Len(split)], 46))

\* IPv6Address(host) does not raise: _split_scope_id, then the address
IsIPv6Scoped(host, p) ==
    /\ ~Has(host, 47)
    /\ p <= Len(host) => p < Len(host) /\ ~Has(SubSeq(host, p + 1, Len(host)), 37)
    /\ IsIPv6Body(SubSeq(host, 1, p - 1))
\* ipaddress.ip_address(host) gives an IPv6Address
IsIPv6(host) == IsIPv6Scoped(host, FirstOf(host, {37}, 1))

\* re.match(r"\Av[a-fA-F0-9]+\..+\Z", hostname)
IsIPvFuture(h) ==
    LET e == Min({j \in 2..(Len(h) + 1) : j > Len(h) \/ ~IsHex(h[j])})
    IN  /\ Len(h) >= 1 /\ h[1] = 118
        /\ e > 2
        /\ e <= Len(h) /\ h[e] = 46
        /\ e < Len(h)
        /\ \A k \in (e + 1)..Len(h) : h[k] # 10

\* netloc.partition("[")[2].partition("]")[0]
BracketedHost(nl) ==
    LET open == FirstOf(nl, {91}, 1)
    IN  SubSeq(nl, open + 1, FirstOf(nl, {93}, open + 1) - 1)

\* urlsplit's _check_bracketed_host does not raise
CheckBracketedHost(h) ==
    IF Len(h) >= 1 /\ h[1] = 118 THEN IsIPvFuture(h) ELSE IsIPv6(h)

\* the characters beyond ASCII whose NFKC form holds one of / ? # @ :
NfkcUnsafe == {8263, 8264, 8265, 8448, 8449, 8453, 8454, 10868, 65043, 65046,
               65109, 65110, 65119, 65131, 65283, 65295, 65306, 65311, 65312}

\* urlsplit's checks of the netloc: brackets that do not pair or hold no
\* IPv6/IPvFuture address, and _checknetloc, raise ValueError
CheckedNetloc(nl) ==
    IF \/ Has(nl, 91) # Has(nl, 93)
       \/ Has(nl, 91) /\ ~CheckBracketedHost(BracketedHost(nl))
       \/ \E k \in 1..Len(nl) : nl[k] \in NfkcUnsafe
    THEN [error |-> "ValueError", netloc |-> <<>>]
    ELSE [error |-> "none", netloc |-> nl]

\* urlsplit once the scheme is gone: after "//" the netloc goes up to the
\* first "/", "?" or "#"; without "//" there is none
UrlsplitFrom(u, i) ==
    IF StartsAt(<<47, 47>>, u, i)
    THEN CheckedNetloc(SubSeq(u, i + 2, FirstOf(u, {47, 63, 35}, i + 2) - 1))
    ELSE [error |-> "none", netloc |-> <<>>]
Urlsplit(u) == UrlsplitFrom(u, AfterScheme(u))

\* app.py:414  urlparse(decoded): its netloc, or the ValueError urlsplit raises
urlparse(decoded) == Urlsplit(Cleaned(decoded))

MANGATEK == Str("mangatek.com")

\* app.py:415  parsed.netloc and "mangatek.com" not in parsed.netloc
\* (not reached when urlparse raised)
RejectedNetloc(parsed) ==
    /\ parsed.error = "none"
    /\ parsed.netloc # <<>>
    /\ ~IsSubstr(MANGATEK, parsed.netloc)
HostRejected(decoded) == RejectedNetloc(urlparse(decoded))

\* app.py:413-418  the try block ends with urlparse's ValueError, with
\* HTTPException(400) for a rejected host, or normally; "except Exception: pass"
\* catches both exceptions, so the function goes on to the extraction every time
GuardOutcome(parsed) ==
    LET raised == IF parsed.error # "none" THEN "ValueError"
                  ELSE IF RejectedNetloc(parsed) THEN "HTTPException"
                  ELSE "none"
    IN  IF raised \in {"none", "ValueError", "HTTPException"} THEN "continue" ELSE "raise"
HostGuard(decoded) == GuardOutcome(urlparse(decoded))

\* ------------------------------------------------------------- extraction
\* the code point of the zero of every run of decimal digits (category Nd):
\* what \d matches in a str pattern and int() converts
DigitZeros ==
    {48, 1632, 1776, 1984, 2406, 2534, 2662, 2790, 2918, 3046, 3174, 3302, 3430,
     3558, 3664, 3792, 3872, 4160, 4240, 6112, 6160, 6470, 6608, 6784, 6800, 6992,
     7088, 7232, 7248, 42528, 43216, 43264, 43472, 43504, 43600, 44016, 65296,
     66720, 68912, 69734, 69872, 69942, 70096, 70384, 70736, 70864, 71248, 71360,
     71472, 71904, 72016, 72784, 73040, 73120, 92768, 92864, 93008, 120782, 120792,
     120802, 120812, 120822, 123200, 123632, 125264, 130032}
IsDigit(c) == \E z \in DigitZeros : c \in z..(z + 9)
DigitVal(c) == c - (CHOOSE z \in DigitZeros : c \in z..(z + 9))

INT_MAX_STR_DIGITS == 4300

\* int(m.group(2)): the int, written as its decimal numeral, or the ValueError
\* int() raises for more than sys.get_int_max_str_digits() digits
ParseInt(s) ==
    IF Len(s) = 0 \/ Len(s) > INT_MAX_STR_DIGITS
    THEN [error |-> "ValueError", value |-> <<>>]
    ELSE LET nonzero == {i \in 1..Len(s) : DigitVal(s[i]) # 0}
             first == IF nonzero = {} THEN Len(s) ELSE Min(nonzero)
         IN  [error |-> "none",
              value |-> [k \in 1..(Len(s) - first + 1) |-> 48 + DigitVal(s[first + k - 1])]]

\* last index of the longest run starting at i of characters that are not "/"
\* (i - 1 when the run is empty): what [^/]+ consumes
SegEnd(u, i) == FirstOf(u, {47}, i) - 1

\* last index of the longest run of digits starting at i: what \d+ consumes
DigitsEnd(u, i) == Min({j \in i..(Len(u) + 1) : j > Len(u) \/ ~IsDigit(u[j])}) - 1

READER_PREFIX == Str("/reader/")
MANGA_PREFIX == Str("/manga/")

\* re.search(r"/reader/([^/]+)/(\d+)", decoded): positions where it matches
ReaderMatches(u) ==
    {i \in 1..Len(u) :
        /\ StartsAt(READER_PREFIX, u, i)
        /\ SegEnd(u, i + 8) >= i + 8
        /\ SegEnd(u, i + 8) + 1 <= Len(u)
        /\ DigitsEnd(u, SegEnd(u, i + 8) + 2) >= SegEnd(u, i + 8) + 2}

\* re.search(r"/manga/([^/]+)", decoded)
MangaMatches(u) ==
    {i \in 1..Len(u) : StartsAt(MANGA_PREFIX, u, i) /\ SegEnd(u, i + 7) >= i + 7}

\* re.search(r"/(\d+)(?:/?)$", decoded): "/", digits, an optional "/", then the
\* end of the string or the newline that ends it
TrailingNumber(u) ==
    {i \in 1..Len(u) :
        /\ u[i] = 47
        /\ DigitsEnd(u, i + 1) >= i + 1
        /\ SubSeq(u, DigitsEnd(u, i + 1) + 1, Len(u)) \in {<<>>, <<10>>, <<47>>, <<47, 10>>}}

NoMatch == [ok |-> FALSE, error |-> "none", slug |-> <<>>, chapter |-> <<>>]
Match(slug, n) ==
    IF n.error # "none" THEN [NoMatch EXCEPT !.error = n.error]
    ELSE [ok |-> TRUE, error |-> "none", slug |-> slug, chapter |-> n.value]

\* app.py:419-431  slug and chapter of a decoded url, no match, or int()'s ValueError
extract(decoded) ==
    IF ReaderMatches(decoded) # {} THEN
        LET i == Min(ReaderMatches(decoded))
            e == SegEnd(decoded, i + 8)
        IN  Match(SubSeq(decoded, i + 8, e),
                  ParseInt(SubSeq(decoded, e + 2, DigitsEnd(decoded, e + 2))))
    ELSE IF MangaMatches(decoded) # {} /\ TrailingNumber(decoded) # {} THEN
        LET i == Min(MangaMatches(decoded))
            j == Min(TrailingNumber(decoded))
        IN  Match(SubSeq(decoded, i + 7, SegEnd(decoded, i + 7)),
                  ParseInt(SubSeq(decoded, j + 1, DigitsEnd(decoded, j + 1))))
    ELSE NoMatch

\* ----------------------------------------------------------- request inputs
\* slug and chapter of /reader/{slug}/{chapter}; a chapter is an int, written
\* as its decimal numeral
Slugs == {Str("a")}
Chapters == {Str("1")}
\* the url parameters of /reader/from-url; a request holds the position of its url
Urls == << Str("https://mangatek.com/manga/a"),
           Str("http://evil.com/reader/a/1"),
           Str("//evil.com/about?p=%2Freader%2f"),
           Str("http://[evil.com/about"),
           Str("/reader/a/") \o [i \in 1..(INT_MAX_STR_DIGITS + 1) |-> 49] >>

Key(slug, chapter) == <<slug, chapter>>
Keys == Slugs \X Chapters
\* the pages an upstream can answer with: empty and short ones, one of 51
\* characters with an image source urljoin raises ValueError for
\* ("/<TAB>/[x.jpg"), one of 2000 characters with a source that is joined to BASE
Docs == {Doc(0, <<>>), Doc(10, <<>>), Doc(50, <<>>),
         Doc(51, <<(<<47, 9>> \o Str("/[x.jpg"))>>),
         Doc(2000, <<Str("/uploads/1.jpg")>>)}
ImageLists == {doc.imgs : doc \in Docs}

\* ------------------------------------------------------------- fetch_html
ViableNonEmpty(len) == len # 0

\* app.py:190/199/208  if html and len(html) > 50
Viable(len) == len # 0 /\ len > MIN_HTML_LEN

FirstStrategyAlwaysPlaywright(usePw) == "playwright"

\* app.py:187  the first executor of a fetch
FirstStrategy(usePw) == IF usePw THEN "playwright" ELSE "httpx"

EscalateSkipsCloudscraper(s, att) ==
    IF s = "playwright" THEN "httpx" ELSE "exhausted"

\* app.py:196/205/214  what follows an executor that did not produce the page:
\* the next block of fetch_html, no loop and no retry
Escalate(s, att) ==
    CASE s = "playwright" -> "httpx"
      [] s = "httpx" -> "cloudscraper"
      [] s = "cloudscraper" -> "exhausted"

PcOf(s) == IF s = "playwright" THEN "pw_enter" ELSE s

CaughtStatusErrorOnly(exc) == exc.status # 0

\* app.py:192/201/210  "except Exception" catches every exception but the
\* BaseException-only ones (asyncio.CancelledError)
Caught(exc) == exc.type # "CancelledError"

\* how the log names an outcome
Classify(exc) ==
    IF exc.status \in {403, 429} THEN "blocked"
    ELSE IF exc.type \in {"playwright.TimeoutError", "httpx.TimeoutException",
                           "requests.Timeout"} THEN "timeout"
    ELSE IF exc.type = "CancelledError" THEN "cancelled"
    ELSE "error"

\* app.py:160  httpx: Response.raise_for_status raises unless the status is 2xx
\* app.py:174  requests: Response.raise_for_status raises for 4xx and 5xx
RaisesForStatus(lib, status) ==
    IF lib = "httpx.HTTPStatusError" THEN status \notin 200..299
    ELSE status \in 400..599

\* app.py:160-161 / 174-175  r.raise_for_status(); return r.text
HttpOutcome(lib, status, doc) ==
    IF RaisesForStatus(lib, status)
    THEN [kind |-> "raise", exc |-> Exc(lib, status), doc |-> NoDoc]
    ELSE [kind |-> "body", exc |-> NoExc, doc |-> doc]

Body(doc) == [kind |-> "body", exc |-> NoExc, doc |-> doc]
Raise(exc) == [kind |-> "raise", exc |-> exc, doc |-> NoDoc]

RawException(exc) == [kind |-> "Exception", status |-> 0, len |-> 0, detail |-> "", last |-> exc]

\* str.strip(): the characters str.isspace() holds of
Whitespace == (9..13) \cup (28..32) \cup {133, 160, 5760} \cup (8192..8202)
              \cup {8232, 8233, 8239, 8287, 12288}
Strip(s) ==
    LET kept == {i \in 1..Len(s) : s[i] \notin Whitespace}
    IN  IF kept = {} THEN <<>>
        ELSE SubSeq(s, Min(kept), CHOOSE i \in kept : \A j \in kept : j <= i)

\* app.py:24
BASE == Str("https://mangatek.com")

\* urljoin(base, url) raises what urlparse raises for either of them
UrljoinRaises(base, url) ==
    /\ base # <<>>
    /\ url # <<>>
    /\ \/ urlparse(base).error # "none"
       \/ urlparse(url).error # "none"

\* app.py:388-395  the clean-up loop of reader: a source is stripped, "//..."
\* gets "https:" put before it, any other "/..." is joined to BASE
CleanupRaises(images) ==
    \E i \in DOMAIN images :
        /\ images[i] # <<>>
        /\ ~StartsAt(<<47, 47>>, Strip(images[i]), 1)
        /\ StartsAt(<<47>>, Strip(images[i]), 1)
        /\ UrljoinRaises(BASE, Strip(images[i]))

\* the same for each list of ImageLists
Cleanup == [images \in ImageLists |-> CleanupRaises(images)]

\* app.py:343-405  reader around and after fetch_html (manga_list: 229-236,
\* manga_detail: 283-290 wrap it alike).  f is what fetch_html ended with; the
\* page it returned is parsed outside the try.
EndpointOutcome(f) ==
    CASE f.kind = "html" ->
            IF Cleanup[f.imgs]
            THEN RawException(Exc("ValueError", 0))
            ELSE [kind |-> "ok", status |-> HTTP_OK, len |-> f.len, detail |-> "",
                  last |-> NoExc]
      [] f.kind = "HTTPException" -> f
      [] f.kind = "CancelledError" -> f
      [] OTHER ->
            [kind |-> "HTTPException", status |-> BAD_GATEWAY, len |-> 0,
             detail |-> "Failed to fetch source", last |-> NoExc]

\* app.py:214-215
Exhausted(le) ==
    [kind |-> "HTTPException", status |-> BAD_GATEWAY, len |-> 0,
     detail |-> "Fetching failed", last |-> le]

Cancelled == [kind |-> "CancelledError", status |-> 0, len |-> 0, detail |-> "", last |-> NoExc]
\* app.py:191/200/209  return html
Html(doc) ==
    [kind |-> "html", status |-> 0, len |-> doc.len, detail |-> "", last |-> NoExc,
     imgs |-> doc.imgs]

\* how the log names what an executor ended with: a body of more than 50
\* characters, a body of 50 characters or fewer, or the kind of exception
Outcome(o) ==
    IF o.kind = "body" THEN (IF o.doc.len > MIN_HTML_LEN THEN "long" ELSE "short")
    ELSE Classify(o.exc)

\* app.py:180-215  what fetch_html ends with once executor s has ended with o
\* (Pending: it goes on to the next executor); le is last_exc after the attempt
FetchOutcome(s, o, le, log) ==
    IF o.kind = "body" /\ Viable(o.doc.len) THEN Html(o.doc)
    ELSE IF o.kind = "raise" /\ ~Caught(o.exc) THEN
        (IF o.exc.type = "CancelledError" THEN Cancelled ELSE RawException(o.exc))
    ELSE IF Escalate(s, log) = "exhausted" THEN Exhausted(le)
    ELSE Pending

\* ------------------------------------------------------------------ cache
\* cachetools.TTLCache: an entry is gone once its age reaches the ttl
Unexpired(c) == {e \in c : e.age < CACHE_TTL}
Aged(c, dt) == Unexpired({[e EXCEPT !.age = e.age + dt] : e \in c})
\* cachetools.cached: hashkey(request, slug, chapter); a starlette Request
\* hashes and compares by identity, and every call builds its own Request
CacheKey(r, slug, chapter) == <<r, slug, chapter>>
CacheHit(c, k) == \E e \in Unexpired(c) : e.key = k

\* -------------------------------------------------------------- Playwright
\* app.py:123  the "async with async_playwright()" block is left.  browser and
\* context record what the code's own calls did (launch / new_context at
\* app.py:124-125, close at app.py:140-141); what the exit of the block does to
\* a browser the code left open is decided by the Playwright library.
AsyncWithExit(p) == [p EXCEPT !.scope = "left"]

\* what a Playwright call raises: playwright.async_api.Error or its subclass
\* TimeoutError (app.py:21 PlaywrightTimeoutError)
PlaywrightError == Exc("playwright.Error", 0)
PlaywrightTimeoutError == Exc("playwright.TimeoutError", 0)
PlaywrightFailures == {PlaywrightError, PlaywrightTimeoutError}

\* ------------------------------------------------------------------- Init
Init ==
    /\ USE_PLAYWRIGHT \in BOOLEAN
    /\ pc = [r \in Requests |-> "idle"]
    /\ req = [r \in Requests |-> NoReq]
    /\ attempts = [r \in Requests |-> <<>>]
    /\ last_exc = [r \in Requests |-> NoExc]
    /\ html = [r \in Requests |-> NoDoc]
    /\ pw = [r \in Requests |-> NoPw]
    /\ fetched = [r \in Requests |-> Pending]
    /\ result = [r \in Requests |-> Pending]
    /\ cache = {}
    /\ served = [k \in Keys |-> -1]

\* ---------------------------------------------------------------- actions
\* the request is answered: f is what fetch_html ended with (its locals end with it)
Answer(r, f) ==
    /\ pc' = [pc EXCEPT ![r] = "done"]
    /\ last_exc' = [last_exc EXCEPT ![r] = NoExc]
    /\ fetched' = [fetched EXCEPT ![r] = f]
    /\ result' = [result EXCEPT ![r] = EndpointOutcome(f)]
    /\ served' = IF EndpointOutcome(f).kind = "ok"
                 THEN [served EXCEPT ![Key(req[r].slug, req[r].chapter)] = 0]
                 ELSE served

\* fetch_html is entered: app.py:185-189 / 197-198
StartFetch(r) ==
    /\ pc' = [pc EXCEPT ![r] = PcOf(FirstStrategy(USE_PLAYWRIGHT))]
    /\ attempts' = [attempts EXCEPT
                      ![r] = <<[s |-> FirstStrategy(USE_PLAYWRIGHT), out |-> "running"]>>]

\* executor s of request r has ended with o: app.py:190-215
Complete(r, s, o) ==
    LET log == [attempts[r] EXCEPT ![Len(attempts[r])].out = Outcome(o)]
        le == IF o.kind = "raise" /\ Caught(o.exc) THEN o.exc ELSE last_exc[r]
        f == FetchOutcome(s, o, le, log)
    IN  /\ html' = [html EXCEPT ![r] = NoDoc]
        /\ IF f = Pending
           THEN /\ pc' = [pc EXCEPT ![r] = PcOf(Escalate(s, log))]
                /\ last_exc' = [last_exc EXCEPT ![r] = le]
                /\ attempts' = [attempts EXCEPT
                       ![r] = Append(log, [s |-> Escalate(s, log), out |-> "running"])]
                /\ UNCHANGED <<fetched, result, served>>
           ELSE /\ attempts' = [attempts EXCEPT ![r] = log]
                /\ Answer(r, f)

\* GET /reader/{slug}/{chapter}: FastAPI calls the function app.get registered,
\* the undecorated reader (app.py:340-344); the cache is not consulted
Reader(r) ==
    /\ pc[r] = "idle"
    /\ \E slug \in Slugs, chapter \in Chapters :
          req' = [req EXCEPT ![r] = [via |-> "route", url |-> 0, slug |-> slug,
                                     chapter |-> chapter,
                                     fresh |-> served[Key(slug, chapter)] >= 0]]
    /\ StartFetch(r)
    /\ UNCHANGED <<USE_PLAYWRIGHT, last_exc, html, pw, fetched, result, cache, served>>

\* app.py:409-429  the host test and the extraction of a decoded url
ParseDecoded(decoded) ==
    [rejected |-> HostRejected(decoded),
     guard |-> HostGuard(decoded),
     m |-> extract(decoded)]
\* the same for each url of Urls, by position
Parsed == [n \in DOMAIN Urls |-> ParseDecoded(unquote(Urls[n]))]

\* app.py:413-431  reader_from_url after the decoding, up to the first await of
\* fetch_html; p is what the url parsed to
FromUrl(r, url, p, limiter) ==
    LET reject(detail) ==
            /\ pc' = [pc EXCEPT ![r] = "done"]
            /\ result' = [result EXCEPT ![r] =
                   [kind |-> "HTTPException", status |-> BAD_REQUEST, len |-> 0,
                    detail |-> detail, last |-> NoExc]]
            /\ UNCHANGED <<attempts, cache>>
    IN  /\ req' = [req EXCEPT ![r] =
               [via |-> "from_url", url |-> url, slug |-> p.m.slug, chapter |-> p.m.chapter,
                fresh |-> p.m.ok /\ served[Key(p.m.slug, p.m.chapter)] >= 0]]
        /\ IF p.guard = "raise" THEN
               reject("Only mangatek.com URLs allowed")
           ELSE IF p.m.error # "none" THEN
               \* int() raised: nothing catches it
               /\ pc' = [pc EXCEPT ![r] = "done"]
               /\ result' = [result EXCEPT ![r] = RawException(Exc(p.m.error, 0))]
               /\ UNCHANGED <<attempts, cache>>
           ELSE IF ~p.m.ok THEN
               reject("Could not extract slug/chapter from URL")
           ELSE IF CacheHit(cache, CacheKey(r, p.m.slug, p.m.chapter)) THEN
               \* the coroutine stored for the key is awaited a second time
               /\ pc' = [pc EXCEPT ![r] = "done"]
               /\ result' = [result EXCEPT ![r] =
                      RawException(Exc("RuntimeError", 0))]
               /\ UNCHANGED <<attempts, cache>>
           ELSE
               \* cached(): miss, the coroutine is built and stored at once
               /\ cache' = Unexpired(cache)
                              \cup {[key |-> CacheKey(r, p.m.slug, p.m.chapter), age |-> 0]}
               /\ IF limiter # "pass"
                  THEN \* the limiter wrapper raises before reader's body runs:
                       \* the limit is used up, or the wrapper fails on the
                       \* Request built from the bare scope {"type": "http"}
                       /\ pc' = [pc EXCEPT ![r] = "done"]
                       /\ result' = [result EXCEPT ![r] =
                              IF limiter = "limited"
                              THEN [kind |-> "RateLimitExceeded", status |-> TOO_MANY,
                                    len |-> 0, detail |-> "", last |-> NoExc]
                              ELSE RawException(Exc(limiter, 0))]
                       /\ UNCHANGED attempts
                  ELSE /\ StartFetch(r)
                       /\ UNCHANGED result

\* GET /reader/from-url: app.py:407-431
ReaderFromUrl(r) ==
    /\ pc[r] = "idle"
    /\ \E url \in DOMAIN Urls, limiter \in {"pass", "limited", "KeyError"} :
          FromUrl(r, url, Parsed[url], limiter)
    /\ UNCHANGED <<USE_PLAYWRIGHT, last_exc, html, pw, fetched, served>>

\* app.py:123  "async with async_playwright() as p" is entered
PwEnter(r) ==
    /\ pc[r] = "pw_enter"
    /\ \E ok \in BOOLEAN :
        IF ok
        THEN /\ pw' = [pw EXCEPT ![r].scope = "entered"]
             /\ pc' = [pc EXCEPT ![r] = "pw_launch"]
             /\ UNCHANGED <<attempts, last_exc, html, fetched, result, served>>
        ELSE \* the block was not entered: nothing to leave
             /\ pw' = pw
             /\ Complete(r, "playwright", Raise(PlaywrightError))
    /\ UNCHANGED <<USE_PLAYWRIGHT, req, cache>>

\* app.py:124  browser = await p.chromium.launch(...)
PwLaunch(r) ==
    /\ pc[r] = "pw_launch"
    /\ \E ok \in BOOLEAN :
        IF ok
        THEN /\ pw' = [pw EXCEPT ![r].browser = "open"]
             /\ pc' = [pc EXCEPT ![r] = "pw_context"]
             /\ UNCHANGED <<attempts, last_exc, html, fetched, result, served>>
        ELSE /\ pw' = [pw EXCEPT ![r] = AsyncWithExit(pw[r])]
             /\ \E e \in PlaywrightFailures : Complete(r, "playwright", Raise(e))
    /\ UNCHANGED <<USE_PLAYWRIGHT, req, cache>>

\* app.py:125  context = await browser.new_context(...)
PwNewContext(r) ==
    /\ pc[r] = "pw_context"
    /\ \E ok \in BOOLEAN :
        IF ok
        THEN /\ pw' = [pw EXCEPT ![r].context = "open"]
             /\ pc' = [pc EXCEPT ![r] = "pw_page"]
             /\ UNCHANGED <<attempts, last_exc, html, fetched, result, served>>
        ELSE /\ pw' = [pw EXCEPT ![r] = AsyncWithExit(pw[r])]
             /\ \E e \in PlaywrightFailures : Complete(r, "playwright", Raise(e))
    /\ UNCHANGED <<USE_PLAYWRIGHT, req, cache>>

\* app.py:126  page = await context.new_page()
PwNewPage(r) ==
    /\ pc[r] = "pw_page"
    /\ \E ok \in BOOLEAN :
        IF ok
        THEN /\ pc' = [pc EXCEPT ![r] = "pw_goto"]
             /\ UNCHANGED <<attempts, last_exc, html, pw, fetched, result, served>>
        ELSE /\ pw' = [pw EXCEPT ![r] = AsyncWithExit(pw[r])]
             /\ \E e \in PlaywrightFailures : Complete(r, "playwright", Raise(e))
    /\ UNCHANGED <<USE_PLAYWRIGHT, req, cache>>

\* app.py:128-131  page.goto(url, wait_until="networkidle")
PwGoto(r) ==
    /\ pc[r] = "pw_goto"
    /\ \E o \in {"ok", "timeout", "error"} :
        IF o = "error"
        THEN /\ pw' = [pw EXCEPT ![r] = AsyncWithExit(pw[r])]
             /\ Complete(r, "playwright", Raise(PlaywrightError))
        ELSE /\ pc' = [pc EXCEPT ![r] = IF o = "ok" THEN "pw_content" ELSE "pw_goto_load"]
             /\ UNCHANGED <<attempts, last_exc, html, pw, fetched, result, served>>
    /\ UNCHANGED <<USE_PLAYWRIGHT, req, cache>>

\* app.py:132-136  the "load" attempt; whatever it raises is passed over
PwGotoLoad(r) ==
    /\ pc[r] = "pw_goto_load"
    /\ \E o \in {"ok", "timeout", "error"} :
          pc' = [pc EXCEPT ![r] = "pw_content"]
    /\ UNCHANGED <<USE_PLAYWRIGHT, req, attempts, last_exc, html, pw, fetched, result,
                   cache, served>>

\* app.py:138-139  asyncio.sleep(0.3); content = await page.content()
PwContent(r) ==
    /\ pc[r] = "pw_content"
    /\ \/ \E doc \in Docs :
            /\ html' = [html EXCEPT ![r] = doc]
            /\ pc' = [pc EXCEPT ![r] = "pw_close_context"]
            /\ UNCHANGED <<attempts, last_exc, pw, fetched, result, served>>
       \/ /\ pw' = [pw EXCEPT ![r] = AsyncWithExit(pw[r])]
          /\ \E e \in PlaywrightFailures : Complete(r, "playwright", Raise(e))
    /\ UNCHANGED <<USE_PLAYWRIGHT, req, cache>>

\* app.py:140  await context.close()
PwCloseContext(r) ==
    /\ pc[r] = "pw_close_context"
    /\ \E ok \in BOOLEAN :
        IF ok
        THEN /\ pw' = [pw EXCEPT ![r].context = "closed"]
             /\ pc' = [pc EXCEPT ![r] = "pw_close_browser"]
             /\ UNCHANGED <<attempts, last_exc, html, fetched, result, served>>
        ELSE /\ pw' = [pw EXCEPT ![r] = AsyncWithExit(pw[r])]
             /\ Complete(r, "playwright", Raise(PlaywrightError))
    /\ UNCHANGED <<USE_PLAYWRIGHT, req, cache>>

\* app.py:141  await browser.close()
PwCloseBrowser(r) ==
    /\ pc[r] = "pw_close_browser"
    /\ \E ok \in BOOLEAN :
        IF ok
        THEN /\ pw' = [pw EXCEPT ![r].browser = "closed"]
             /\ pc' = [pc EXCEPT ![r] = "pw_exit"]
             /\ UNCHANGED <<attempts, last_exc, html, fetched, result, served>>
        ELSE /\ pw' = [pw EXCEPT ![r] = AsyncWithExit(pw[r])]
             /\ Complete(r, "playwright", Raise(PlaywrightError))
    /\ UNCHANGED <<USE_PLAYWRIGHT, req, cache>>

\* app.py:142, 123  return content: the async with is left, then content returned
PwExit(r) ==
    /\ pc[r] = "pw_exit"
    /\ pw' = [pw EXCEPT ![r] = AsyncWithExit(pw[r])]
    /\ Complete(r, "playwright", Body(html[r]))
    /\ UNCHANGED <<USE_PLAYWRIGHT, req, cache>>

\* app.py:158-159  what fetch_page_httpx raises apart from the status check:
\* the construction of the client (an httpx without the proxies= parameter
\* raises TypeError for it) and the transport
HttpxFailures == {Exc("TypeError", 0), Exc("httpx.TimeoutException", 0)}
\* app.py:172-173  the same for cloudscraper: the connection and the transport
CloudscraperFailures == {Exc("requests.ConnectionError", 0), Exc("requests.Timeout", 0)}

\* app.py:147-164  fetch_page_httpx answers
Httpx(r) ==
    /\ pc[r] = "httpx"
    /\ \/ \E status \in Statuses, doc \in Docs :
            Complete(r, "httpx", HttpOutcome("httpx.HTTPStatusError", status, doc))
       \/ \E e \in HttpxFailures : Complete(r, "httpx", Raise(e))
    /\ UNCHANGED <<USE_PLAYWRIGHT, req, pw, cache>>

\* app.py:166-178, 207  fetch_page_cloudscraper_sync answers from its thread
Cloudscraper(r) ==
    /\ pc[r] = "cloudscraper"
    /\ \/ \E status \in Statuses, doc \in Docs :
            Complete(r, "cloudscraper", HttpOutcome("requests.HTTPError", status, doc))
       \/ \E e \in CloudscraperFailures : Complete(r, "cloudscraper", Raise(e))
    /\ UNCHANGED <<USE_PLAYWRIGHT, req, pw, cache>>

\* the request's task is cancelled at the await it is suspended in (client gone,
\* server shutdown): CancelledError passes every "except Exception"; an async
\* with that was entered is left on the way out
Cancel(r) ==
    /\ pc[r] \in FetchPcs
    /\ pw' = [pw EXCEPT ![r] = IF pc[r] \in PwPcs /\ pw[r].scope = "entered"
                               THEN AsyncWithExit(pw[r]) ELSE pw[r]]
    /\ Complete(r, Last(attempts[r]).s, Raise(Exc("CancelledError", 0)))
    /\ UNCHANGED <<USE_PLAYWRIGHT, req, cache>>

\* time passes
Tick ==
    /\ cache # {} \/ \E k \in Keys : served[k] >= 0
    /\ cache' = Aged(cache, TickStep)
    /\ served' = [k \in Keys |->
                    IF served[k] >= 0 /\ served[k] + TickStep < CACHE_TTL
                    THEN served[k] + TickStep ELSE -1]
    /\ UNCHANGED <<USE_PLAYWRIGHT, pc, req, attempts, last_exc, html, pw, fetched, result>>

\* one step of request r's task
Step(r) ==
    \/ Reader(r)
    \/ ReaderFromUrl(r)
    \/ PwEnter(r)
    \/ PwLaunch(r)
    \/ PwNewContext(r)
    \/ PwNewPage(r)
    \/ PwGoto(r)
    \/ PwGotoLoad(r)
    \/ PwContent(r)
    \/ PwCloseContext(r)
    \/ PwCloseBrowser(r)
    \/ PwExit(r)
    \/ Httpx(r)
    \/ Cloudscraper(r)
    \/ Cancel(r)

\* one request on its own: every outcome of every executor
NextCall == Step(1) \/ Tick
Spec == Init /\ [][NextCall]_vars

\* the server: the requests' tasks interleave at their await points
Next == (\E r \in Requests : Step(r)) \/ Tick
SpecServer == Init /\ [][Next]_vars

\* ----------------------------------------------------------------- claims
Done(r) == pc[r] = "done"
Strategies(att) == [i \in DOMAIN att |-> att[i].s]
Failures == {"short", "blocked", "timeout", "error"}
IsExhausted(f) ==
    f.kind = "HTTPException" /\ f.status = BAD_GATEWAY /\ f.detail = "Fetching failed"

\* C1: when every executor a fetch_html call attempted returned, without raising,
\* a body of 50 characters or fewer, the call does not return a body: it ends with
\* the 502 failure that records no exception (last=None), the failure of a fetch
\* whose responses were all empty.
C1_ShortBodiesFail ==
    \A r \in Requests :
        (/\ Done(r)
         /\ attempts[r] # <<>>
         /\ \A i \in DOMAIN attempts[r] : attempts[r][i].out = "short")
        => /\ fetched[r] = Exhausted(NoExc)
           /\ result[r].kind = "HTTPException"
           /\ result[r].status = BAD_GATEWAY

C1_Witness ==
    \E r \in Requests :
        /\ Done(r)
        /\ Len(attempts[r]) = 3
        /\ \A i \in DOMAIN attempts[r] : attempts[r][i].out = "short"
        /\ fetched[r] = Exhausted(NoExc)

\* C2: fetch_html reports the 502 failure only when every enabled strategy has
\* been attempted and has ended: httpx, cloudscraper and, when USE_PLAYWRIGHT,
\* Playwright (in particular when httpx failed with HTTP 403).
C2_NoFailureWhileUntried ==
    \A r \in Requests :
        fetched[r].kind = "HTTPException" =>
            /\ \A s \in {"httpx", "cloudscraper"} \cup
                        (IF USE_PLAYWRIGHT THEN {"playwright"} ELSE {}) :
                   \E i \in DOMAIN attempts[r] :
                       attempts[r][i].s = s /\ attempts[r][i].out \in Failures
            /\ IsExhausted(fetched[r])

C2_Witness ==
    \E r \in Requests :
        /\ USE_PLAYWRIGHT
        /\ IsExhausted(fetched[r])
        /\ fetched[r].last = Exc("httpx.HTTPStatusError", 403)
        /\ attempts[r][2] = [s |-> "httpx", out |-> "blocked"]

\* C3: httpx is attempted first, and Playwright only after httpx has failed.
C3_LightweightFirst ==
    \A r \in Requests :
        \A i \in DOMAIN attempts[r] :
            attempts[r][i].s = "playwright" =>
                \E j \in 1..(i - 1) :
                    attempts[r][j].s = "httpx" /\ attempts[r][j].out \in Failures

\* C4: whatever the three executors do (long body, short body, any exception
\* raised by the transport, the status check or a timeout), fetch_html ends by
\* returning a body longer than 50 characters or by raising HTTPException(502);
\* no exception of an executor reaches the caller: the endpoint passes the 502
\* on, and the one exception it can end with otherwise is the ValueError of its
\* own parsing of the page fetch_html returned.
C4_NoRawException ==
    \A r \in Requests :
        (/\ Done(r)
         /\ attempts[r] # <<>>
         /\ \A i \in DOMAIN attempts[r] : attempts[r][i].out # "cancelled")
        => /\ \/ fetched[r].kind = "html" /\ fetched[r].len > MIN_HTML_LEN
              \/ IsExhausted(fetched[r])
           /\ IsExhausted(fetched[r]) => result[r] = fetched[r]
           /\ result[r].kind = "Exception" =>
                  fetched[r].kind = "html" /\ result[r].last = Exc("ValueError", 0)

C4_Witness ==
    \E r \in Requests :
        /\ Done(r)
        /\ Len(attempts[r]) = 3
        /\ attempts[r][1].out = "error"
        /\ attempts[r][2].out = "timeout"
        /\ attempts[r][3].out = "blocked"
        /\ IsExhausted(fetched[r])

SameKey(r1, r2) == req[r1].slug = req[r2].slug /\ req[r1].chapter = req[r2].chapter

\* C5: a request for a key that was answered successfully less than CACHE_TTL
\* ago is answered from the cache: no executor is invoked for it.
C5_FreshKeyServedFromCache ==
    \A r \in Requests : req[r].fresh => attempts[r] = <<>>

\* C6: of the requests for one key that are in flight together, only one runs
\* executors; the others wait for its result.
C6_OneFetchPerKey ==
    \A r1, r2 \in Requests :
        (r1 # r2 /\ pc[r1] \in FetchPcs /\ pc[r2] \in FetchPcs /\ SameKey(r1, r2))
        => attempts[r1] = <<>> \/ attempts[r2] = <<>>

\* C8: reader_from_url called with a url whose host is rejected and whose path
\* holds a slug and a chapter invokes no executor and ends with
\* HTTPException(400, "Only mangatek.com URLs allowed").
C8_DisallowedHostRejected ==
    \A r \in Requests :
        (/\ req[r].via = "from_url"
         /\ Parsed[req[r].url].rejected
         /\ Parsed[req[r].url].m.ok)
        => /\ attempts[r] = <<>>
           /\ (Done(r) /\ result[r].kind # "RateLimitExceeded") =>
                  /\ result[r].status = BAD_REQUEST
                  /\ result[r].detail = "Only mangatek.com URLs allowed"

\* C9: a strategy that failed with Blocked or Timeout on its first
\* attempt is attempted again before the fetch goes on or gives up.
C9_RetriesSameStrategy ==
    \A r \in Requests :
        \A i \in DOMAIN attempts[r] :
            (/\ attempts[r][i].out \in {"blocked", "timeout"}
             /\ \A j \in 1..(i - 1) : attempts[r][j].s # attempts[r][i].s)
            => /\ i < Len(attempts[r])
               /\ attempts[r][i + 1].s = attempts[r][i].s

\* C10: in one fetch_html call every executor is invoked at most once,
\* Playwright only when USE_PLAYWRIGHT, none after an executor has returned a
\* body longer than 50 characters, and so at most three in all.
C10_AtMostOnce ==
    \A r \in Requests :
        /\ \A s \in {"playwright", "httpx", "cloudscraper"} : Count(attempts[r], s) <= 1
        /\ Count(attempts[r], "playwright") > 0 => USE_PLAYWRIGHT
        /\ \A i \in DOMAIN attempts[r] :
               attempts[r][i].out = "long" => i = Len(attempts[r]) /\ Done(r)
        /\ Len(attempts[r]) <= 3

C10_Witness ==
    \E r \in Requests :
        /\ Done(r)
        /\ ~USE_PLAYWRIGHT
        /\ Strategies(attempts[r]) = <<"httpx", "cloudscraper">>
        /\ attempts[r][1].out = "short"
        /\ attempts[r][2].out = "long"

====
